---- MODULE Spec2Model ----
(***************************************************************************)
(* The coursework storefront backend: an Express server over a MongoDB     *)
(* database with two collections, 'lessons' and 'orders', and four         *)
(* store-backed routes (GET /lessons, POST /orders, PUT /lessons/:id,      *)
(* GET /search).  Every handler awaits exactly one store operation, so a   *)
(* handler is one atomic step on the collections.                          *)
(***************************************************************************)
EXTENDS Integers, Sequences, FiniteSets, TLC

(***************************************************************************)
(* Bounds of the model.                                                    *)
(***************************************************************************)
MaxOrders == 2      \* documents the orders collection may hold
MaxSpaces == 1      \* largest number a request body carries as 'spaces'

(***************************************************************************)
(* Strings are sequences of one-character strings.                         *)
(***************************************************************************)
Lower(c) == IF c = "A" THEN "a" ELSE IF c = "B" THEN "b" ELSE c

\* The seeded 'lessons' collection, texts only; spaces are set by Init.
Catalog ==
  << [_id |-> 1, subject |-> <<"A", "b">>, location |-> <<"b">>, price |-> 10],
     [_id |-> 2, subject |-> <<"b", "a">>, location |-> <<"a", ".">>, price |-> 20] >>

LessonIndex == 1..Len(Catalog)

\* JSON values a request body may carry in its 'spaces' member.
Num(n) == [type |-> "number", val |-> n]
NotNumbers ==
  { [type |-> "undefined", val |-> 0],
    [type |-> "string", val |-> 1] }
SpacesValues == { Num(n) : n \in (0 - 1)..MaxSpaces } \cup NotNumbers

\* typeof v
TypeOf(v) == v.type

\* The :id path parameters that requests carry.
IdParams == { <<"2">>, <<"1", "x">>, <<"x", "1">>, <<"1", "2">> }

IsDigit(c) == c \in {"0", "1", "2", "3", "4", "5", "6", "7", "8", "9"}

DigitVal(c) ==
  CASE c = "0" -> 0 [] c = "1" -> 1 [] c = "2" -> 2 [] c = "3" -> 3
    [] c = "4" -> 4 [] c = "5" -> 5 [] c = "6" -> 6 [] c = "7" -> 7
    [] c = "8" -> 8 [] c = "9" -> 9

RECURSIVE DigitsPrefixLen(_)
\* number of leading decimal digits of s
DigitsPrefixLen(s) ==
  IF s = <<>> \/ ~IsDigit(Head(s)) THEN 0 ELSE 1 + DigitsPrefixLen(Tail(s))

RECURSIVE DigitsValue(_, _)
\* value of the first n characters of s read as a decimal numeral
DigitsValue(s, n) ==
  IF n = 0 THEN 0 ELSE 10 * DigitsValue(s, n - 1) + DigitVal(s[n])

\* parseInt(s): the leading decimal digits of s, NaN when there are none.
ParseInt(s) ==
  LET n == DigitsPrefixLen(s)
  IN  IF n = 0 THEN [nan |-> TRUE, val |-> 0]
               ELSE [nan |-> FALSE, val |-> DigitsValue(s, n)]

\* The filter { _id: lessonId }: NaN equals no stored _id.
IdMatches(doc, lessonId) == ~lessonId.nan /\ doc._id = lessonId.val

\* The order documents that requests carry as the body of POST /orders.
Order(name, phone, items) ==
  [customerName |-> name, customerPhone |-> phone, items |-> items]
Item(lessonId, quantity) == [lessonId |-> lessonId, quantity |-> quantity]
OrderBodies ==
  { Order("Ann", "07", << Item(1, 1) >>),
    Order("Ann", "07", << Item(2, 1), Item(1, 2) >>),
    Order("Ann", "07", << Item(1, 0) >>),
    Order("", "", <<>>) }

\* The q query parameters that requests carry; present = FALSE is a request
\* without the parameter.
Terms ==
  { <<>>, <<"a">>, <<"A">>, <<".">>, <<"(">>, <<"a", ".">>, <<"B", "A">>, <<"z">> }
NoQuery == [present |-> FALSE, text |-> <<>>]
Queries == { [present |-> TRUE, text |-> t] : t \in Terms } \cup {NoQuery}

\* !query
Falsy(q) == ~q.present \/ q.text = <<>>

(***************************************************************************)
(* $regex with $options 'i', for patterns made of letters, '.' and '('.    *)
(***************************************************************************)
\* a pattern with an unclosed group does not compile; the store rejects it
RegexValid(p) == \A k \in 1..Len(p) : p[k] # "("

\* one pattern character against one text character, ignoring case
RegexCharMatch(pc, c) == pc = "." \/ Lower(pc) = Lower(c)

RegexMatchAt(p, s, i) ==
  /\ i + Len(p) - 1 <= Len(s)
  /\ \A k \in 1..Len(p) : RegexCharMatch(p[k], s[i + k - 1])

\* the pattern matches somewhere in s (unanchored)
RegexFind(p, s) == \E i \in 1..(Len(s) + 1) : RegexMatchAt(p, s, i)

\* { $or: [ {subject: {$regex: q, $options: 'i'}}, {location: ...} ] }
SearchFilter(doc, p) == RegexFind(p, doc.subject) \/ RegexFind(p, doc.location)

RECURSIVE SelectDocs(_, _)
\* find(filter).toArray(): the matching documents in collection order
SelectDocs(docs, p) ==
  IF docs = <<>> THEN <<>>
  ELSE IF SearchFilter(Head(docs), p)
       THEN <<Head(docs)>> \o SelectDocs(Tail(docs), p)
       ELSE SelectDocs(Tail(docs), p)

(***************************************************************************)
(* State.                                                                  *)
(***************************************************************************)
VARIABLES
  runPc,        \* position of run(): "connecting", "connected", "failed"
  db,           \* the module-level db handle: "undefined" or "coursework"
  lessons,      \* the 'lessons' collection, a sequence of documents
  orders,       \* the 'orders' collection; the index is the insertedId
  req,          \* the request handled last
  res,          \* the response sent last
  storeCalled,  \* whether the last handler issued a store operation
  threw,        \* what the last handler's try block threw, "none" if nothing
  alive,        \* whether the server process is still running
  cpc,          \* per client: position in its purchase
  csnap,        \* per client: the lessons it got from GET /lessons
  cres          \* per client: statuses of its POST and its PUTs

clientVars == <<cpc, csnap, cres>>
vars == <<runPc, db, lessons, orders, req, res, storeCalled, threw, alive,
          cpc, csnap, cres>>

NoParam == <<>>
NoSpaces == [type |-> "undefined", val |-> 0]

Request(route, id, spaces, q) ==
  [route |-> route, id |-> id, spaces |-> spaces, q |-> q]

Response(status, docs, insertedId) ==
  [status |-> status, docs |-> docs, insertedId |-> insertedId]

NoRequest == Request("none", NoParam, NoSpaces, NoQuery)
NoResponse == Response(0, <<>>, 0)


StoreOutcomes == {"ok", "error", "lost"}   \* "lost": applied, reply never arrives

Clients == {"c1", "c2"}

\* The carts a storefront client checks out (quantities are positive).
ClientCarts ==
  { << Item(1, 1) >>, << Item(1, 2) >>, << Item(2, 1), Item(1, 1) >> }

\* A client's purchase so far: its cart, the index of the next item to PUT,
\* the status of its POST, the statuses of its PUTs, and whether some item
\* asked for more than the lesson had when the order was posted.
Purchase(cart, next, post, puts, exceeds) ==
  [cart |-> cart, next |-> next, post |-> post, puts |-> puts, exceeds |-> exceeds]
NoPurchase == Purchase(<<>>, 1, 0, <<>>, FALSE)

WithSpaces(doc, n) ==
  [_id |-> doc._id, subject |-> doc.subject, location |-> doc.location,
   price |-> doc.price, spaces |-> n]

Init ==
  /\ runPc = "connecting"
  /\ db = "undefined"
  /\ \E sp \in [LessonIndex -> 0..MaxSpaces] :
        lessons = [i \in LessonIndex |-> WithSpaces(Catalog[i], sp[i])]
  /\ orders = <<>>
  /\ req = NoRequest
  /\ res = NoResponse
  /\ storeCalled = FALSE
  /\ threw = "none"
  /\ alive = TRUE
  /\ cpc = [c \in Clients |-> "idle"]
  /\ csnap = [c \in Clients |-> <<>>]
  /\ cres = [c \in Clients |-> NoPurchase]

(***************************************************************************)
(* run(): connect, then assign db.  A failed connect is logged and leaves  *)
(* db undefined; the server listens either way.                            *)
(***************************************************************************)
ConnectOk ==
  /\ alive
  /\ runPc = "connecting"
  /\ runPc' = "connected"
  /\ db' = "coursework"
  /\ UNCHANGED <<lessons, orders, req, res, storeCalled, threw, alive>>
  /\ UNCHANGED clientVars

ConnectFail ==
  /\ alive
  /\ runPc = "connecting"
  /\ runPc' = "failed"
  /\ UNCHANGED <<db, lessons, orders, req, res, storeCalled, threw, alive>>
  /\ UNCHANGED clientVars

(***************************************************************************)
(* What every handler's catch block does with a throw from its try block:  *)
(* log, answer 500, keep the process running.                              *)
(***************************************************************************)
CaughtUncaught(err) ==
  /\ threw' = err
  /\ res' = res
  /\ alive' = FALSE

Caught(err) ==
  /\ threw' = err
  /\ res' = Response(500, <<>>, 0)
  /\ alive' = TRUE

NotThrown(response) ==
  /\ threw' = "none"
  /\ res' = response
  /\ alive' = TRUE

\* db.collection(...) on an undefined db is a TypeError before any store call
DbUndefined == db = "undefined"

(***************************************************************************)
(* GET /lessons                                                            *)
(***************************************************************************)
HandleGetLessons(outcome) ==
  /\ alive
  /\ req' = Request("GET /lessons", NoParam, NoSpaces, NoQuery)
  /\ UNCHANGED <<runPc, db, lessons, orders>>
  /\ IF DbUndefined
       THEN storeCalled' = FALSE /\ Caught("TypeError")
       ELSE /\ storeCalled' = TRUE
            /\ IF outcome = "ok"
                 THEN NotThrown(Response(200, lessons, 0))
                 ELSE Caught("MongoNetworkError")

(***************************************************************************)
(* POST /orders: insert the body as it came.                               *)
(***************************************************************************)
HandlePostOrders(order, outcome) ==
  /\ alive
  /\ Len(orders) < MaxOrders
  /\ req' = Request("POST /orders", NoParam, NoSpaces, NoQuery)
  /\ UNCHANGED <<runPc, db, lessons>>
  /\ IF DbUndefined
       THEN storeCalled' = FALSE /\ orders' = orders /\ Caught("TypeError")
       ELSE /\ storeCalled' = TRUE
            /\ orders' = IF outcome = "error" THEN orders ELSE Append(orders, order)
            /\ IF outcome = "ok"
                 THEN NotThrown(Response(201, <<>>, Len(orders) + 1))
                 ELSE Caught("MongoNetworkError")

(***************************************************************************)
(* PUT /lessons/:id                                                        *)
(***************************************************************************)
\* the validation left out: every body reaches the store
InvalidSpacesUnchecked(newSpaces) == FALSE

\* typeof newSpaces !== 'number'
InvalidSpaces(newSpaces) == TypeOf(newSpaces) # "number"

\* index of the first document the filter { _id: lessonId } selects, 0 if none
FirstMatch(docs, lessonId) ==
  IF \E i \in 1..Len(docs) : IdMatches(docs[i], lessonId)
    THEN CHOOSE i \in 1..Len(docs) :
           /\ IdMatches(docs[i], lessonId)
           /\ \A j \in 1..(i - 1) : ~IdMatches(docs[j], lessonId)
    ELSE 0

\* the update written as { $inc: { spaces: newSpaces } }
UpdateOneInc(docs, lessonId, newSpaces) ==
  LET m == FirstMatch(docs, lessonId)
  IN  [i \in 1..Len(docs) |->
         IF i = m THEN WithSpaces(docs[i], docs[i].spaces + newSpaces) ELSE docs[i]]

\* updateOne({ _id: lessonId }, { $set: { spaces: newSpaces } })
UpdateOne(docs, lessonId, newSpaces) ==
  LET m == FirstMatch(docs, lessonId)
  IN  [i \in 1..Len(docs) |->
         IF i = m THEN WithSpaces(docs[i], newSpaces) ELSE docs[i]]

\* result.matchedCount
MatchedCount(docs, lessonId) == IF FirstMatch(docs, lessonId) = 0 THEN 0 ELSE 1

HandlePutLesson(id, newSpaces, outcome) ==
  LET lessonId == ParseInt(id)
  IN  /\ alive
      /\ req' = Request("PUT /lessons/:id", id, newSpaces, NoQuery)
      /\ UNCHANGED <<runPc, db, orders>>
      /\ IF InvalidSpaces(newSpaces)
           THEN /\ storeCalled' = FALSE
                /\ lessons' = lessons
                /\ NotThrown(Response(400, <<>>, 0))
           ELSE IF DbUndefined
             THEN storeCalled' = FALSE /\ lessons' = lessons /\ Caught("TypeError")
             ELSE /\ storeCalled' = TRUE
                  /\ lessons' = IF outcome = "error" THEN lessons
                                ELSE UpdateOne(lessons, lessonId, newSpaces.val)
                  /\ IF outcome = "ok"
                       THEN IF MatchedCount(lessons, lessonId) > 0
                              THEN NotThrown(Response(200, <<>>, 0))
                              ELSE NotThrown(Response(404, <<>>, 0))
                       ELSE Caught("MongoNetworkError")

(***************************************************************************)
(* GET /search?q=                                                          *)
(***************************************************************************)
HandleSearch(q, outcome) ==
  /\ alive
  /\ req' = Request("GET /search", NoParam, NoSpaces, q)
  /\ UNCHANGED <<runPc, db, lessons, orders>>
  /\ IF Falsy(q)
       THEN storeCalled' = FALSE /\ NotThrown(Response(400, <<>>, 0))
       ELSE IF DbUndefined
         THEN storeCalled' = FALSE /\ Caught("TypeError")
         ELSE /\ storeCalled' = TRUE
              /\ IF outcome # "ok"
                   THEN Caught("MongoNetworkError")
                   ELSE IF ~RegexValid(q.text)
                     THEN Caught("MongoServerError")
                     ELSE NotThrown(Response(200, SelectDocs(lessons, q.text), 0))

(***************************************************************************)
(* GET /                                                                   *)
(***************************************************************************)
HandleRoot ==
  /\ alive
  /\ req' = Request("GET /", NoParam, NoSpaces, NoQuery)
  /\ storeCalled' = FALSE
  /\ NotThrown(Response(200, <<>>, 0))
  /\ UNCHANGED <<runPc, db, lessons, orders>>

(***************************************************************************)
(* Requests from arbitrary callers.                                        *)
(***************************************************************************)
GetLessons ==
  /\ \E outcome \in StoreOutcomes : HandleGetLessons(outcome)
  /\ UNCHANGED clientVars

PostOrders ==
  /\ \E order \in OrderBodies, outcome \in StoreOutcomes :
        HandlePostOrders(order, outcome)
  /\ UNCHANGED clientVars

PutLesson ==
  /\ \E id \in IdParams, newSpaces \in SpacesValues, outcome \in StoreOutcomes :
        HandlePutLesson(id, newSpaces, outcome)
  /\ UNCHANGED clientVars

Search ==
  /\ \E q \in Queries, outcome \in StoreOutcomes : HandleSearch(q, outcome)
  /\ UNCHANGED clientVars

Root ==
  /\ HandleRoot
  /\ UNCHANGED clientVars

Next ==
  \/ ConnectOk
  \/ ConnectFail
  \/ GetLessons
  \/ PostOrders
  \/ PutLesson
  \/ Search
  \/ Root

Spec == Init /\ [][Next]_vars


(***************************************************************************)
(* A storefront client's purchase: GET /lessons to display the list, POST  *)
(* /orders with its cart, then one PUT /lessons/:id per item "after a      *)
(* purchase", carrying the spaces it computed from the list it displayed.  *)
(***************************************************************************)
\* the decimal numeral of a lesson id, as it is put into the URL
IdParam(n) ==
  CASE n = 1 -> <<"1">> [] n = 2 -> <<"2">> [] OTHER -> <<"x">>

\* spaces of lesson lessonId in a list of lesson documents
SpacesOf(docs, lessonId) ==
  LET i == CHOOSE i \in 1..Len(docs) : docs[i]._id = lessonId
  IN  docs[i].spaces

Exceeds(cart, docs) ==
  \E k \in 1..Len(cart) : cart[k].quantity > SpacesOf(docs, cart[k].lessonId)

ClientGet(c) ==
  /\ cpc[c] = "idle"
  /\ \E outcome \in StoreOutcomes : HandleGetLessons(outcome)
  /\ IF res'.status = 200
       THEN /\ cpc' = [cpc EXCEPT ![c] = "got"]
            /\ csnap' = [csnap EXCEPT ![c] = res'.docs]
       ELSE UNCHANGED <<cpc, csnap>>
  /\ UNCHANGED cres

ClientPost(c) ==
  /\ cpc[c] = "got"
  /\ \E cart \in ClientCarts, outcome \in StoreOutcomes :
        /\ HandlePostOrders(Order("Ann", "07", cart), outcome)
        /\ cres' = [cres EXCEPT ![c] =
                      Purchase(cart, 1, res'.status, <<>>, Exceeds(cart, lessons))]
  /\ cpc' = [cpc EXCEPT ![c] = IF res'.status = 201 THEN "posted" ELSE "done"]
  /\ UNCHANGED csnap

ClientPut(c) ==
  LET item == cres[c].cart[cres[c].next]
      newSpaces == Num(SpacesOf(csnap[c], item.lessonId) - item.quantity)
  IN  /\ cpc[c] = "posted"
      /\ \E outcome \in StoreOutcomes :
            HandlePutLesson(IdParam(item.lessonId), newSpaces, outcome)
      /\ cres' = [cres EXCEPT ![c] =
                    Purchase(@.cart, @.next + 1, @.post,
                             Append(@.puts, res'.status), @.exceeds)]
      /\ cpc' = [cpc EXCEPT ![c] =
                   IF cres[c].next = Len(cres[c].cart) THEN "done" ELSE "posted"]
      /\ UNCHANGED csnap

NextShop ==
  \/ ConnectOk
  \/ ConnectFail
  \/ \E c \in Clients : ClientGet(c)
  \/ \E c \in Clients : ClientPost(c)
  \/ \E c \in Clients : ClientPut(c)

SpecShop == Init /\ [][NextShop]_vars


(***************************************************************************)
(* Properties.                                                             *)
(***************************************************************************)
PutRoute == "PUT /lessons/:id"
SearchRoute == "GET /search"

\* the step is a request being handled (run() does not move)
HandlerStep == runPc' = runPc

\* some lesson has _id equal to parseInt(id)
SomeLessonHasId(docs, id) ==
  \E i \in 1..Len(docs) : ~ParseInt(id).nan /\ docs[i]._id = ParseInt(id).val

\* C1: every lesson has spaces >= 0 in every reachable state.
C1_SpacesNonNegative == \A i \in 1..Len(lessons) : lessons[i].spaces >= 0

\* a purchase that got 201 for its order and 200 for each of its updates
Succeeded(c) ==
  /\ cpc[c] = "done"
  /\ cres[c].post = 201
  /\ Len(cres[c].puts) = Len(cres[c].cart)
  /\ \A k \in 1..Len(cres[c].puts) : cres[c].puts[k] = 200

\* no request of the purchase ran into a store failure
NoStoreFailure(c) ==
  /\ cres[c].post # 500
  /\ \A k \in 1..Len(cres[c].puts) : cres[c].puts[k] # 500

\* both clients saw one space left of the same lesson, each bought one unit
\* of it, and both purchases have run to their end
LastUnitRace ==
  \E l \in {1, 2} :
    \A c \in Clients :
      /\ cpc[c] = "done"
      /\ cres[c].cart = << Item(l, 1) >>
      /\ SpacesOf(csnap[c], l) = 1
      /\ NoStoreFailure(c)

\* C2: of two concurrent purchases of the last unit exactly one succeeds and
\* the other is rejected.
C2_ExactlyOneSucceeds == LastUnitRace => (Succeeded("c1") # Succeeded("c2"))

\* C3: an order that asks for more than a lesson has leaves the spaces of
\* every lesson as they were, at each of the steps of its submission.
C3_ExcessLeavesSpaces ==
  [][\A c \in Clients :
       (cres[c].exceeds /\ cpc[c] = "posted" /\ cres'[c].next = cres[c].next + 1)
         => lessons' = lessons]_vars

\* every item of the order finds its quantity in the lesson it names
Covered(order, docs) ==
  \A k \in 1..Len(order.items) :
    order.items[k].quantity <= SpacesOf(docs, order.items[k].lessonId)

\* C4: an order is inserted, and answered with 201, only if every lesson it
\* references has spaces >= the requested quantity at the insert.
C4_InsertOnlyIfCovered ==
  [][Len(orders') > Len(orders) => Covered(orders'[Len(orders')], lessons)]_vars

\* C5: PUT /lessons/:id answers 400 exactly when spaces is not a number, and
\* then without calling the store; a store call that completes is answered
\* with 200 when a lesson has _id = parseInt(id) and with 404 when none has;
\* the 400 and 404 outcomes leave lessons and orders unchanged.
C5_PutOutcomes ==
  [][(HandlerStep /\ req'.route = PutRoute) =>
       /\ (TypeOf(req'.spaces) # "number") <=> (res'.status = 400)
       /\ res'.status = 400 => ~storeCalled'
       /\ res'.status \in {200, 400, 404, 500}
       /\ res'.status = 500 => threw' # "none"
       /\ res'.status = 200 => SomeLessonHasId(lessons, req'.id)
       /\ res'.status = 404 => ~SomeLessonHasId(lessons, req'.id)
       /\ res'.status \in {400, 404} => (lessons' = lessons /\ orders' = orders)
    ]_vars

C5_Witness ==
  /\ req.route = PutRoute
  /\ req.id = <<"1", "x">>
  /\ res.status = 200
  /\ lessons[1].spaces = req.spaces.val

\* the search was answered by the store (db assigned, no network failure)
SearchReachedStore ==
  /\ req.route = SearchRoute
  /\ ~Falsy(req.q)
  /\ storeCalled
  /\ threw # "MongoNetworkError"

\* t occurs in s as a literal substring, letter case ignored
ContainsIgnoreCase(s, t) ==
  \E i \in 1..(Len(s) + 1) :
    /\ i + Len(t) - 1 <= Len(s)
    /\ \A k \in 1..Len(t) : Lower(t[k]) = Lower(s[i + k - 1])

LiteralMatch(doc, t) ==
  ContainsIgnoreCase(doc.subject, t) \/ ContainsIgnoreCase(doc.location, t)

\* C6: a missing or empty q is answered 400 without a store call, and a
\* non-empty q that no lesson contains is answered 200 with an empty array.
C6_SearchValidation ==
  /\ (req.route = SearchRoute /\ Falsy(req.q)) => (res.status = 400 /\ ~storeCalled)
  /\ (SearchReachedStore /\ \A i \in 1..Len(lessons) : ~LiteralMatch(lessons[i], req.q.text))
       => (res.status = 200 /\ res.docs = <<>>)

\* C7: every document of the orders collection has a non-empty items
\* sequence, positive quantities and non-empty customerName and customerPhone.
C7_OrdersValidated ==
  \A n \in 1..Len(orders) :
    /\ orders[n].items # <<>>
    /\ \A k \in 1..Len(orders[n].items) : orders[n].items[k].quantity > 0
    /\ orders[n].customerName # ""
    /\ orders[n].customerPhone # ""

\* the request is one that goes to the store
StoreBacked(r) ==
  \/ r.route = "GET /lessons"
  \/ r.route = "POST /orders"
  \/ r.route = SearchRoute /\ ~Falsy(r.q)
  \/ r.route = PutRoute /\ TypeOf(r.spaces) = "number"

\* C8: every failure of a store-backed route, a db that is still or for ever
\* undefined included, is answered with 500 and leaves the server running;
\* after a failed connect db stays undefined.
C8_FailuresCaught ==
  [][HandlerStep =>
       /\ alive'
       /\ runPc' = "failed" => db' = "undefined"
       /\ threw' # "none" => res'.status = 500
       /\ (StoreBacked(req') /\ db = "undefined")
            => (res'.status = 500 /\ threw' = "TypeError" /\ ~storeCalled')
       /\ (StoreBacked(req') /\ res'.status \notin {200, 201, 404}) => res'.status = 500
    ]_vars

C8_Witness ==
  /\ runPc = "failed"
  /\ db = "undefined"
  /\ req.route = "POST /orders"
  /\ threw = "TypeError"
  /\ res.status = 500
  /\ alive

RECURSIVE LiteralSelect(_, _)
LiteralSelect(docs, t) ==
  IF docs = <<>> THEN <<>>
  ELSE IF LiteralMatch(Head(docs), t)
       THEN <<Head(docs)>> \o LiteralSelect(Tail(docs), t)
       ELSE LiteralSelect(Tail(docs), t)

\* C9: a search that reaches the store returns exactly the lessons whose
\* subject or location contains q as literal text, letter case ignored.
C9_LiteralSearch ==
  SearchReachedStore =>
    (res.status = 200 /\ res.docs = LiteralSelect(lessons, req.q.text))

\* C10: a PUT changes at most the spaces of the lesson it matches, to the
\* number in its body (so that the same update applied again changes
\* nothing), and no order; a POST changes no lesson; no request changes an
\* order that exists.
C10_Frame ==
  [][/\ Len(orders') >= Len(orders)
     /\ \A n \in 1..Len(orders) : orders'[n] = orders[n]
     /\ Len(lessons') = Len(lessons)
     /\ \A i \in 1..Len(lessons) :
          /\ lessons'[i]._id = lessons[i]._id
          /\ lessons'[i].subject = lessons[i].subject
          /\ lessons'[i].location = lessons[i].location
          /\ lessons'[i].price = lessons[i].price
     /\ (HandlerStep /\ req'.route # PutRoute) => lessons' = lessons
     /\ (HandlerStep /\ req'.route = PutRoute) =>
          /\ orders' = orders
          /\ \A i \in 1..Len(lessons) :
               lessons'[i].spaces # lessons[i].spaces =>
                 /\ ~ParseInt(req'.id).nan
                 /\ lessons[i]._id = ParseInt(req'.id).val
                 /\ lessons'[i].spaces = req'.spaces.val
          /\ res'.status = 200 =>
               /\ \E i \in 1..Len(lessons) :
                    /\ lessons[i]._id = ParseInt(req'.id).val
                    /\ lessons'[i].spaces = req'.spaces.val
               /\ UpdateOne(lessons', ParseInt(req'.id), req'.spaces.val) = lessons'
    ]_vars

C10_Witness ==
  /\ req.route = PutRoute
  /\ res.status = 200
  /\ Len(orders) = 2
  /\ lessons[2].spaces = req.spaces.val
  /\ lessons[1].spaces # req.spaces.val

====
